---- MODULE Spec2Model ----
(***************************************************************************)
(* Model of boost::math::interpolators::makima                             *)
(* (src/include/boost/math/interpolators/makima.hpp).                      *)
(*                                                                         *)
(* Real is modelled as the exact rationals extended with the IEEE special  *)
(* values: a value is a pair <<n, d>>; d > 0 with gcd(|n|, d) = 1 is the   *)
(* rational n/d, <<1, 0>> is +inf, <<-1, 0>> is -inf and <<0, 0>> is the   *)
(* not-a-number produced by 0/0.  Rounding and the sign of zero are not    *)
(* tracked (no comparison and no 0/0 of the code depends on the sign of a  *)
(* zero).  Container indices are 0-based as in the source; At(c, i) reads  *)
(* element i of a container.                                               *)
(* The samples and the queries handed to the object are finite numbers.   *)
(***************************************************************************)
EXTENDS Integers, Naturals, Sequences, FiniteSets, TLC

VARIABLES ax, ay, status, x, y, s, err, pc, qry, loc, ret, exc

vars == <<ax, ay, status, x, y, s, err, pc, qry, loc, ret, exc>>

\* ------------------------------------------------------------------ bounds
\* Largest number of abscissas / ordinates handed to the constructor.
MaxLen == 5

\* Differences between consecutive abscissas handed to the constructor; the
\* first abscissa and the first ordinate are 0.
Steps == {-1, 0, 1, 2}

\* Differences between consecutive ordinates handed to the constructor.
YSteps == {0, 1}

\* Threads that may call operator() on the constructed object.
Readers == {"r1", "r2"}

\* Query abscissas, in halves: from below every sample range to above it.
Queries ==
    {<<k, 1>> : k \in -1..(2 * MaxLen - 1)} \cup {<<2 * k + 1, 2>> : k \in -1..(2 * MaxLen - 2)}

\* ------------------------------------------------------------- Real numbers
RECURSIVE GCD(_, _)
GCD(a, b) == IF b = 0 THEN a ELSE GCD(b, a % b)

AbsInt(n) == IF n < 0 THEN -n ELSE n

SignInt(n) == IF n < 0 THEN -1 ELSE IF n > 0 THEN 1 ELSE 0

Norm(n, d) ==
    IF d = 0 THEN <<SignInt(n), 0>>
    ELSE LET g == GCD(AbsInt(n), AbsInt(d))
             sg == IF d < 0 THEN -1 ELSE 1
         IN <<(sg * n) \div g, (sg * d) \div g>>

R(n) == <<n, 1>>

Zero == R(0)

NaN == <<0, 0>>

IsNaN(a) == a = NaN

IsFinite(a) == a[2] # 0

Neg(a) == <<-a[1], a[2]>>

Abs(a) == <<AbsInt(a[1]), a[2]>>

Add(a, b) ==
    IF IsFinite(a) /\ IsFinite(b) THEN Norm(a[1] * b[2] + b[1] * a[2], a[2] * b[2])
    ELSE IF IsNaN(a) \/ IsNaN(b) THEN NaN
    ELSE IF ~IsFinite(a) /\ ~IsFinite(b) THEN (IF a = b THEN a ELSE NaN)
    ELSE IF ~IsFinite(a) THEN a ELSE b

Sub(a, b) == Add(a, Neg(b))

Mul(a, b) == Norm(a[1] * b[1], a[2] * b[2])

DivZeroByZeroIsZero(a, b) ==
    IF a = Zero /\ b = Zero THEN Zero ELSE Norm(a[1] * b[2], a[2] * b[1])

Div(a, b) == Norm(a[1] * b[2], a[2] * b[1])

Less(a, b) ==
    IF IsNaN(a) \/ IsNaN(b) THEN FALSE
    ELSE IF ~IsFinite(a) /\ ~IsFinite(b) THEN a[1] < b[1]
    ELSE a[1] * b[2] < b[1] * a[2]

Eq(a, b) == ~IsNaN(a) /\ ~IsNaN(b) /\ a = b

Leq(a, b) == Less(a, b) \/ Eq(a, b)

Greater(a, b) == Less(b, a)

\* ---------------------------------------------------------------- containers
Size(c) == Len(c)

InRange(c, i) == 0 <= i /\ i < Len(c)

At(c, i) == c[i + 1]

ZeroVector(n) == [k \in 1..n |-> Zero]

NoObject == <<>>

None == <<>>

\* ---------------------------------------------------------------- exceptions
\* An exception is <<type, what>>; what is the message, a sequence of tokens:
\* <<"lit", text>> is literal text, <<"int", i>> a printed integer and
\* <<"num", r>> the text std::to_string produces for a Real.
Lit(text) == <<"lit", text>>

IntTok(i) == <<"int", i>>

\* std::to_string(double) prints "%f": sign, integer part and six decimals,
\* rounded to nearest (ties to even) from the exact value.
to_string(a) ==
    IF IsNaN(a) THEN Lit("nan")
    ELSE IF ~IsFinite(a) THEN Lit(IF a[1] < 0 THEN "-inf" ELSE "inf")
    ELSE LET scaled == AbsInt(a[1]) * 1000000
             qd == scaled \div a[2]
             rm == scaled % a[2]
             up == 2 * rm > a[2] \/ (2 * rm = a[2] /\ qd % 2 = 1)
             digits == IF up THEN qd + 1 ELSE qd
         IN <<"num", <<a[1] < 0, digits \div 1000000, digits % 1000000>>>>

SizeMismatchError ==
    <<"domain_error", <<Lit("There must be the same number of ordinates as abscissas.")>>>>

TooFewError == <<"domain_error", <<Lit("Must be at least two data points.")>>>>

NotIncreasingErrorCitingIndex(i) ==
    <<"domain_error",
      <<Lit("Abscissas must be listed in strictly increasing order, but not at index "),
        IntTok(i)>>>>

NotIncreasingError(i) ==
    <<"domain_error",
      <<Lit("Abscissas must be listed in strictly increasing order x0 < x1 < ... < x_{n-1}")>>>>

OutOfDomainError(q, lo, hi) ==
    <<"domain_error",
      <<Lit("Requested abscissa x = "), to_string(q),
        Lit(", which is outside of allowed range ["), to_string(lo),
        Lit(", "), to_string(hi), Lit("]")>>>>

\* ---------------------------------------------------------------- constructor
\* for (size_t i = 1; i < x_.size(); ++i): throws at the first i with x1 <= x0.
RECURSIVE MonotonicLoop(_, _, _)
MonotonicLoop(xx, i, x0) ==
    IF i < Size(xx)
    THEN LET x1 == At(xx, i)
         IN IF Leq(x1, x0) THEN NotIncreasingError(i)
            ELSE MonotonicLoop(xx, i + 1, x1)
    ELSE None

ValidateTooFewFirst(xx, yy) ==
    IF Size(xx) < 2 THEN TooFewError
    ELSE IF Size(xx) # Size(yy) THEN SizeMismatchError
    ELSE MonotonicLoop(xx, 1, At(xx, 0))

\* The three checks of the constructor; None when none of them throws.
Validate(xx, yy) ==
    IF Size(xx) # Size(yy) THEN SizeMismatchError
    ELSE IF Size(xx) < 2 THEN TooFewError
    ELSE MonotonicLoop(xx, 1, At(xx, 0))

\* Secant slope of the segment from sample k to sample k+1.
Secant(xx, yy, k) ==
    Div(Sub(At(yy, k + 1), At(yy, k)), Sub(At(xx, k + 1), At(xx, k)))

NumeratorOuterSecant(mim2, mim1, mi, mip1) ==
    Add(Mul(Abs(Sub(mip1, mi)), mim2), Mul(Abs(Sub(mim1, mim2)), mi))

Numerator(mim2, mim1, mi, mip1) ==
    Add(Mul(Abs(Sub(mip1, mi)), mim1), Mul(Abs(Sub(mim1, mim2)), mi))

Denominator(mim2, mim1, mi, mip1) ==
    Add(Abs(Sub(mip1, mi)), Abs(Sub(mim1, mim2)))

\* The value the loop body stores in s_[i].
Slope(xx, yy, i) ==
    LET mim2 == Secant(xx, yy, i - 2)
        mim1 == Secant(xx, yy, i - 1)
        mi == Secant(xx, yy, i)
        mip1 == Secant(xx, yy, i + 1)
    IN Div(Numerator(mim2, mim1, mi, mip1), Denominator(mim2, mim1, mi, mip1))

\* Sample indices the loop body reads for node i.
ReadIndices(i) == {i - 2, i - 1, i, i + 1, i + 2}

\* What a container access outside the container leaves behind.
Undefined == <<>>

\* for (i = ...; i < s_.size()-2; ++i) s_[i] = numerator/denominator.
\* s_.size() >= 2 here (the constructor has thrown otherwise), so the unsigned
\* s_.size()-2 does not wrap.
RECURSIVE SlopeLoop(_, _, _, _)
SlopeLoop(xx, yy, ss, i) ==
    IF i < Size(ss) - 2
    THEN IF \A k \in ReadIndices(i) : InRange(xx, k) /\ InRange(yy, k)
         THEN SlopeLoop(xx, yy, [ss EXCEPT ![i + 1] = Slope(xx, yy, i)], i + 1)
         ELSE Undefined
    ELSE ss

SlopeVectorOneMore(xx, yy) ==
    LET RECURSIVE Loop(_, _)
        Loop(ss, i) ==
            IF i < Size(ss) - 1
            THEN IF \A k \in ReadIndices(i) : InRange(xx, k) /\ InRange(yy, k)
                 THEN Loop([ss EXCEPT ![i + 1] = Slope(xx, yy, i)], i + 1)
                 ELSE Undefined
            ELSE ss
    IN Loop(ZeroVector(Size(xx)), 2)

\* s_.resize(x_.size()) value-initialises every entry, then the loop runs from 2.
SlopeVector(xx, yy) == SlopeLoop(xx, yy, ZeroVector(Size(xx)), 2)

\* makima(x, y): the arguments are moved into x_ and y_; a throw destroys them
\* and no object exists.
Construct ==
    /\ status = "none"
    /\ LET e == Validate(ax, ay)
       IN IF e # None
          THEN /\ status' = "failed"
               /\ err' = e
               /\ x' = NoObject /\ y' = NoObject /\ s' = NoObject
          ELSE LET sv == SlopeVector(ax, ay)
               IN IF sv = Undefined
                  THEN /\ status' = "ub"
                       /\ err' = None
                       /\ x' = ax /\ y' = ay /\ s' = Undefined
                  ELSE /\ status' = "built"
                       /\ err' = None
                       /\ x' = ax /\ y' = ay /\ s' = sv
    /\ UNCHANGED <<ax, ay, pc, qry, loc, ret, exc>>

\* ---------------------------------------------------------------- operator()
NoLocals ==
    [i |-> 0, x0 |-> Zero, x1 |-> Zero, y0 |-> Zero, y1 |-> Zero,
     s0 |-> Zero, s1 |-> Zero, dx |-> Zero, t |-> Zero]

\* The queries no further than 1 from the sample range.
QueriesNear(xx) ==
    {q \in Queries : /\ Leq(Sub(At(xx, 0), R(1)), q)
                     /\ Leq(q, Add(At(xx, Size(xx) - 1), R(1)))}

\* A thread enters operator()(q) on the constructed object.
Call(c) ==
    /\ status = "built"
    /\ pc[c] \in {"idle", "returned", "raised"}
    /\ \E q \in QueriesNear(x) :
         /\ qry' = [qry EXCEPT ![c] = q]
         /\ pc' = [pc EXCEPT ![c] = "check"]
         /\ loc' = [loc EXCEPT ![c] = NoLocals]
         /\ ret' = [ret EXCEPT ![c] = None]
         /\ exc' = [exc EXCEPT ![c] = None]
    /\ UNCHANGED <<ax, ay, status, x, y, s, err>>

OutsideRightClosed(xx, q) ==
    Less(q, At(xx, 0)) \/ Leq(At(xx, Size(xx) - 1), q)

\* if (x < x_[0] || x > x_[x_.size()-1])
Outside(xx, q) ==
    Less(q, At(xx, 0)) \/ Greater(q, At(xx, Size(xx) - 1))

\* The range check and the right-endpoint return.
EvalCheck(c) ==
    /\ pc[c] = "check"
    /\ IF Outside(x, qry[c])
       THEN /\ exc' = [exc EXCEPT ![c] =
                         OutOfDomainError(qry[c], At(x, 0), At(x, Size(x) - 1))]
            /\ pc' = [pc EXCEPT ![c] = "raised"]
            /\ ret' = ret
       ELSE IF Eq(qry[c], At(x, Size(x) - 1))
       THEN /\ ret' = [ret EXCEPT ![c] = At(y, Size(y) - 1)]
            /\ pc' = [pc EXCEPT ![c] = "returned"]
            /\ exc' = exc
       ELSE /\ pc' = [pc EXCEPT ![c] = "search"]
            /\ UNCHANGED <<ret, exc>>
    /\ UNCHANGED <<ax, ay, status, x, y, s, err, qry, loc>>

\* std::upper_bound(first, first + len, val): the binary search of the library.
RECURSIVE UpperBoundLoop(_, _, _, _)
UpperBoundLoop(xx, first, len, val) ==
    IF len > 0
    THEN LET half == len \div 2
             mid == first + half
         IN IF Less(val, At(xx, mid))
            THEN UpperBoundLoop(xx, first, half, val)
            ELSE UpperBoundLoop(xx, mid + 1, len - half - 1, val)
    ELSE first

LowerBound(xx, val) ==
    LET RECURSIVE Loop(_, _)
        Loop(first, len) ==
            IF len > 0
            THEN LET half == len \div 2
                     mid == first + half
                 IN IF Less(At(xx, mid), val)
                    THEN Loop(mid + 1, len - half - 1)
                    ELSE Loop(first, half)
            ELSE first
    IN Loop(0, Size(xx))

\* Index of the first abscissa strictly greater than val; Size(xx) if none.
UpperBound(xx, val) == UpperBoundLoop(xx, 0, Size(xx), val)

EvalSearchRepairingSlope(c) ==
    /\ pc[c] = "search"
    /\ LET it == UpperBound(x, qry[c])
           i == it - 1
       IN IF InRange(x, it - 1) /\ InRange(x, it) /\ InRange(y, i)
             /\ InRange(y, i + 1) /\ InRange(s, i) /\ InRange(s, i + 1)
          THEN LET x0 == At(x, it - 1)
                   x1 == At(x, it)
                   dx == Sub(x1, x0)
                   s1 == IF IsNaN(At(s, i + 1)) THEN Zero ELSE At(s, i + 1)
               IN /\ loc' = [loc EXCEPT ![c] =
                               [i |-> i, x0 |-> x0, x1 |-> x1,
                                y0 |-> At(y, i), y1 |-> At(y, i + 1),
                                s0 |-> At(s, i), s1 |-> s1,
                                dx |-> dx, t |-> Div(Sub(qry[c], x0), dx)]]
                  /\ s' = [s EXCEPT ![i + 2] = s1]
                  /\ pc' = [pc EXCEPT ![c] = "hermite"]
          ELSE /\ pc' = [pc EXCEPT ![c] = "ub"]
               /\ loc' = loc
               /\ s' = s
    /\ UNCHANGED <<ax, ay, status, x, y, err, qry, ret, exc>>

\* The interval search and the reads of the interval's data.
EvalSearch(c) ==
    /\ pc[c] = "search"
    /\ LET it == UpperBound(x, qry[c])
           i == it - 1
       IN IF InRange(x, it - 1) /\ InRange(x, it) /\ InRange(y, i)
             /\ InRange(y, i + 1) /\ InRange(s, i) /\ InRange(s, i + 1)
          THEN LET x0 == At(x, it - 1)
                   x1 == At(x, it)
                   dx == Sub(x1, x0)
               IN /\ loc' = [loc EXCEPT ![c] =
                               [i |-> i, x0 |-> x0, x1 |-> x1,
                                y0 |-> At(y, i), y1 |-> At(y, i + 1),
                                s0 |-> At(s, i), s1 |-> At(s, i + 1),
                                dx |-> dx, t |-> Div(Sub(qry[c], x0), dx)]]
                  /\ pc' = [pc EXCEPT ![c] = "hermite"]
          ELSE /\ pc' = [pc EXCEPT ![c] = "ub"]
               /\ loc' = loc
    /\ UNCHANGED <<ax, ay, status, x, y, s, err, qry, ret, exc>>

\* Real y = (1-t)*(1-t)*(y0*(1+2*t) + s0*dx) + t*t*(y1*(3-2*t) + dx*s1*(t-1));
Hermite(y0, y1, s0, s1, dx, t) ==
    LET omt == Sub(R(1), t)
    IN Add(Mul(Mul(omt, omt), Add(Mul(y0, Add(R(1), Mul(R(2), t))), Mul(s0, dx))),
           Mul(Mul(t, t),
               Add(Mul(y1, Sub(R(3), Mul(R(2), t))),
                   Mul(Mul(dx, s1), Sub(t, R(1))))))

\* The evaluation of the cubic and the return.
EvalHermite(c) ==
    /\ pc[c] = "hermite"
    /\ LET l == loc[c]
       IN ret' = [ret EXCEPT ![c] = Hermite(l.y0, l.y1, l.s0, l.s1, l.dx, l.t)]
    /\ pc' = [pc EXCEPT ![c] = "returned"]
    /\ UNCHANGED <<ax, ay, status, x, y, s, err, qry, loc, exc>>

\* ------------------------------------------------------------ specifications
RECURSIVE SumTo(_, _)
SumTo(d, k) == IF k = 0 THEN 0 ELSE d[k] + SumTo(d, k - 1)

FromSteps(d) == [i \in 1..(Len(d) + 1) |-> R(SumTo(d, i - 1))]

XSeqs ==
    {<<>>} \cup {FromSteps(d) : d \in UNION {[1..k -> Steps] : k \in 0..(MaxLen - 1)}}

UnitXSeqs == {[i \in 1..n |-> R(i - 1)] : n \in 0..MaxLen}

YSeqs ==
    {<<>>} \cup {FromSteps(d) : d \in UNION {[1..k -> YSteps] : k \in 0..(MaxLen - 1)}}

InitRest ==
    /\ status = "none"
    /\ x = NoObject /\ y = NoObject /\ s = NoObject
    /\ err = None
    /\ pc = [c \in Readers |-> "idle"]
    /\ qry = [c \in Readers |-> Zero]
    /\ loc = [c \in Readers |-> NoLocals]
    /\ ret = [c \in Readers |-> None]
    /\ exc = [c \in Readers |-> None]

Init == ax \in XSeqs /\ ay \in YSeqs /\ InitRest

InitConc == ax \in UnitXSeqs /\ ay \in YSeqs /\ InitRest

\* One caller.
Next ==
    \/ Construct
    \/ Call("r1")
    \/ EvalCheck("r1")
    \/ EvalSearch("r1")
    \/ EvalHermite("r1")

\* Any number of the readers inside operator() at once.
NextConc ==
    \/ Construct
    \/ \E c \in Readers : Call(c)
    \/ \E c \in Readers : EvalCheck(c)
    \/ \E c \in Readers : EvalSearch(c)
    \/ \E c \in Readers : EvalHermite(c)

Spec == Init /\ [][Next]_vars

SpecConc == InitConc /\ [][NextConc]_vars

\* ------------------------------------------------------------------- claims
N == Size(x)

Built == status = "built"

Finished(c) == pc[c] \in {"returned", "raised"}

\* The arguments pass the three checks, stated without the constructor's code.
SameSize == Len(ax) = Len(ay)

Enough == Len(ax) >= 2

BadPairs == {i \in 1..(Len(ax) - 1) : Leq(ax[i + 1], ax[i])}

FirstBadPair == CHOOSE i \in BadPairs : \A j \in BadPairs : i <= j

NotIncreasing == SameSize /\ Enough /\ BadPairs # {}

ValidArguments == SameSize /\ Enough /\ BadPairs = {}

Constructed == status # "none"

\* Secant slope m_k of the stored samples, k = 0..N-2.
M(k) == Secant(x, y, k)

Interior == {i \in 0..(N - 1) : 2 <= i /\ i < N - 2}

Weight(i) == Add(Abs(Sub(M(i + 1), M(i))), Abs(Sub(M(i - 1), M(i - 2))))

MinR(a, b) == IF Less(b, a) THEN b ELSE a

MaxR(a, b) == IF Less(a, b) THEN b ELSE a

\* C1: for every node index i of a constructed interpolant, operator()(x[i])
\* returns exactly y[i], whatever the stored slope s[i].
C1_NodeValueReturned ==
    \A c \in Readers :
        (Built /\ pc[c] = "returned") =>
            \A i \in 0..(N - 1) : Eq(qry[c], At(x, i)) => ret[c] = At(y, i)

\* C2: the constructor decides its outcome by the size check, then the
\* two-points check, then the strictly-increasing check, and succeeds with
\* len(x) = len(y) = len(s) in every other case; after a failure there is no
\* interpolant.
C2_ConstructionOutcome ==
    Constructed =>
        /\ ~SameSize => (status = "failed" /\ err = SizeMismatchError)
        /\ (SameSize /\ ~Enough) => (status = "failed" /\ err = TooFewError)
        /\ NotIncreasing =>
              (status = "failed" /\ err = NotIncreasingError(FirstBadPair))
        /\ ValidArguments =>
              /\ Built /\ err = None
              /\ x = ax /\ y = ay
              /\ Len(x) = Len(y) /\ Len(y) = Len(s)
        /\ status = "failed" =>
              /\ x = NoObject /\ y = NoObject /\ s = NoObject
              /\ \A c \in Readers : pc[c] = "idle"

C2_Witness ==
    /\ status = "failed" /\ err = SizeMismatchError
    /\ Len(ax) < 2 /\ Len(ay) > Len(ax)

\* C3: operator()(q) raises exactly when q < x[0] or q > x[n-1]; every query of
\* the closed range returns a value, and q = x[n-1] returns y[n-1].
C3_DomainCheck ==
    \A c \in Readers :
        (Built /\ pc[c] # "idle") =>
            LET inside == Leq(At(x, 0), qry[c]) /\ Leq(qry[c], At(x, N - 1))
            IN /\ pc[c] # "ub"
               /\ pc[c] = "raised" => (~inside /\ exc[c] # None /\ ret[c] = None)
               /\ pc[c] \in {"search", "hermite", "returned"} => inside
               /\ pc[c] = "returned" => (ret[c] # None /\ exc[c] = None)
               /\ (pc[c] = "returned" /\ qry[c] = At(x, N - 1)) =>
                     ret[c] = At(y, N - 1)

C3_Witness ==
    \E c \in Readers :
        /\ Built /\ N >= 5 /\ pc[c] = "returned"
        /\ qry[c] = At(x, N - 1) /\ ret[c] = At(y, N - 1)
        /\ At(y, N - 1) # At(y, N - 2)

Cites(e, i) == \E k \in 1..Len(e[2]) : e[2][k] = IntTok(i)

\* C5 as stated: when the abscissas are not strictly increasing, the error
\* reported to the caller identifies the first index i with x[i] <= x[i-1].
C5_ErrorCitesFirstIndex ==
    (Constructed /\ NotIncreasing) => Cites(err, FirstBadPair)

\* C5 as amended: when the abscissas are not strictly increasing, construction
\* fails with the one fixed message naming the strictly-increasing requirement;
\* the message is the same at every offending index and shows no index.
C5_ErrorIsFixedMessage ==
    (Constructed /\ NotIncreasing) =>
        /\ status = "failed"
        /\ err = <<"domain_error",
                   <<Lit("Abscissas must be listed in strictly increasing order x0 < x1 < ... < x_{n-1}")>>>>
        /\ \A i \in 0..Len(ax) : ~Cites(err, i)

C5_Witness ==
    /\ status = "failed" /\ NotIncreasing
    /\ Len(ax) = 4 /\ FirstBadPair = 2 /\ ax[3] = ax[2]

\* What one call returns or raises, as a function of the stored data alone.
Evaluate(xx, yy, ss, q) ==
    IF Outside(xx, q)
    THEN <<"raised", OutOfDomainError(q, At(xx, 0), At(xx, Size(xx) - 1))>>
    ELSE IF Eq(q, At(xx, Size(xx) - 1))
    THEN <<"returned", At(yy, Size(yy) - 1)>>
    ELSE LET i == UpperBound(xx, q) - 1
             dx == Sub(At(xx, i + 1), At(xx, i))
         IN <<"returned",
              Hermite(At(yy, i), At(yy, i + 1), At(ss, i), At(ss, i + 1), dx,
                      Div(Sub(q, At(xx, i)), dx))>>

\* C6: operator() never modifies the interpolant: whatever calls have run or
\* are running, from one reader or several at once, x, y and s are as
\* construction left them, and the outcome of every finished call is the one
\* determined by (x, y, s, query).
C6_EvaluateIsPure ==
    Built =>
        LET sv == SlopeVector(ax, ay)
        IN /\ x = ax /\ y = ay /\ s = sv
           /\ \A c \in Readers :
                 /\ pc[c] = "returned" =>
                       <<"returned", ret[c]>> = Evaluate(ax, ay, sv, qry[c])
                 /\ pc[c] = "raised" =>
                       <<"raised", exc[c]>> = Evaluate(ax, ay, sv, qry[c])

C6_Witness ==
    /\ Built /\ N >= 5
    /\ pc["r1"] = "hermite" /\ pc["r2"] = "returned"
    /\ loc["r1"].i = loc["r2"].i
    /\ qry["r1"] # qry["r2"]
    /\ \E i \in Interior : IsNaN(At(s, i))

\* y0*h00(t) + dx*s0*h10(t) + y1*h01(t) + dx*s1*h11(t)
HermiteStandard(y0, y1, s0, s1, dx, t) ==
    LET omt == Sub(R(1), t)
        h00 == Mul(Add(R(1), Mul(R(2), t)), Mul(omt, omt))
        h10 == Mul(t, Mul(omt, omt))
        h01 == Mul(Mul(t, t), Sub(R(3), Mul(R(2), t)))
        h11 == Mul(Mul(t, t), Sub(t, R(1)))
    IN Add(Add(Mul(y0, h00), Mul(Mul(dx, s0), h10)),
           Add(Mul(y1, h01), Mul(Mul(dx, s1), h11)))

\* C7: on every interval and for every t in [0, 1), the factored expression
\* the evaluator computes equals the standard cubic Hermite form
\* y0*h00(t) + dx*s0*h10(t) + y1*h01(t) + dx*s1*h11(t).
C7_FactoredEqualsStandard ==
    \A c \in Readers :
        (Built /\ pc[c] = "returned" /\ Less(qry[c], At(x, N - 1))) =>
            LET l == loc[c]
            IN ret[c] = HermiteStandard(l.y0, l.y1, l.s0, l.s1, l.dx, l.t)

C9_BoundarySlopesDefault ==
    /\ status # "ub"
    /\ Built =>
          /\ Len(s) = N
          /\ \A k \in 0..(N - 1) :
                IF k \in Interior
                THEN /\ At(s, k) = Slope(x, y, k)
                     /\ ReadIndices(k) \subseteq 0..(N - 1)
                ELSE At(s, k) = Zero
          /\ \A k \in {0, 1, N - 2, N - 1} : At(s, k) = Zero
          /\ N <= 4 => s = ZeroVector(N)

C9_Witness ==
    /\ Built /\ N = 5
    /\ IsFinite(At(s, 2)) /\ At(s, 2) # Zero
    /\ At(s, 0) = Zero /\ At(s, 1) = Zero /\ At(s, 3) = Zero /\ At(s, 4) = Zero
    /\ M(0) # Zero /\ M(3) # Zero

\* Both secant differences around node i vanish.
ZeroWeight(i) == M(i + 1) = M(i) /\ M(i - 1) = M(i - 2)

\* C10: when for some i, 2 <= i < n-2, both secant differences vanish,
\* construction still succeeds without an error and stores not-a-number in
\* s[i], not a fallback such as zero or the common secant slope.
C10_ZeroWeightGivesNaN ==
    (Constructed /\ ValidArguments) =>
        /\ Built /\ err = None
        /\ \A i \in Interior : ZeroWeight(i) => IsNaN(At(s, i))

C10_Witness ==
    /\ Built
    /\ \E i \in Interior : ZeroWeight(i) /\ M(i) # Zero /\ IsNaN(At(s, i))

====
